---- MODULE Spec2Model ----
(***************************************************************************)
(* A model of query_blocks (mcpi_fast_query/minecraft-pi-fast-query.py):   *)
(* the pipelined worker loop worker_fn, the orchestration of threads and   *)
(* sockets around it, and a line-oriented in-order server on the far end   *)
(* of every connection.  Bytes are integers (ASCII codes), text is a       *)
(* sequence of one-character strings.                                      *)
(***************************************************************************)
EXTENDS Integers, Sequences, FiniteSets, TLC

\* ------------------------------------------------------------------ bounds
MaxReqs == 3        \* longest request sequence handed to query_blocks
MaxThreads == 2     \* largest thread_count
MaxLoad == 4        \* largest Load of a run, see Load below
MaxFillReqs == 193  \* length of the request sequence that fills request_buffer

\* ------------------------------------------------------- program constants
FillThreshold == 4096   \* line 108: len(request_buffer) < 4096
RecvSize == 1024        \* line 138: mc_socket.recv(1024)

\* ----------------------------------------------------------------- helpers
Min(a, b) == IF a < b THEN a ELSE b

Range(s) == {s[i] : i \in 1..Len(s)}

Drop(s, k) == SubSeq(s, k + 1, Len(s))

Take(s, k) == SubSeq(s, 1, k)

\* ------------------------------------------------------- text and encoding
Digits == <<"0", "1", "2", "3", "4", "5", "6", "7", "8", "9">>

\* the characters the commands and replies of the model are written in
Ord ==
  [c \in {"0", "1", "2", "3", "4", "5", "6", "7", "8", "9", "-", ",", "(", ")",
          ".", "B", "D", "F", "H", "W", "a", "c", "d", "e", "g", "h", "i", "k",
          "l", "o", "r", "t", "w"} |->
     CASE c = "0" -> 48 [] c = "1" -> 49 [] c = "2" -> 50 [] c = "3" -> 51
       [] c = "4" -> 52 [] c = "5" -> 53 [] c = "6" -> 54 [] c = "7" -> 55
       [] c = "8" -> 56 [] c = "9" -> 57 [] c = "-" -> 45 [] c = "," -> 44
       [] c = "(" -> 40 [] c = ")" -> 41 [] c = "." -> 46 [] c = "F" -> 70
       [] c = "H" -> 72 [] c = "a" -> 97 [] c = "d" -> 100 [] c = "e" -> 101
       [] c = "g" -> 103 [] c = "h" -> 104 [] c = "i" -> 105 [] c = "l" -> 108
       [] c = "o" -> 111 [] c = "r" -> 114 [] c = "t" -> 116 [] c = "w" -> 119
       [] c = "B" -> 66 [] c = "D" -> 68 [] c = "W" -> 87 [] c = "c" -> 99
       [] c = "k" -> 107]

Chr(b) == CHOOSE c \in DOMAIN Ord : Ord[c] = b

\* str.encode(socket_encoding) / bytes.decode(socket_encoding), ASCII range
Encode(text) == [i \in 1..Len(text) |-> Ord[text[i]]]

Decode(bytes) == [i \in 1..Len(bytes) |-> Chr(bytes[i])]

NL == 10    \* b"\n"

RECURSIVE DecNat(_)
DecNat(n) == IF n < 10 THEN <<Digits[n + 1]>>
             ELSE DecNat(n \div 10) \o <<Digits[(n % 10) + 1]>>

\* "%d" % n
FmtD(n) == IF n < 0 THEN <<"-">> \o DecNat(-n) ELSE DecNat(n)

\* fmt % pos: coordinate pairs go with fmt = "world.getHeight(%d,%d)",
\* coordinate triples with fmt = "world.getBlockWithData(%d,%d,%d)"
Format(pos) ==
  IF Len(pos) = 2
  THEN <<"w", "o", "r", "l", "d", ".", "g", "e", "t", "H", "e", "i", "g", "h",
         "t", "(">>
         \o FmtD(pos[1]) \o <<",">> \o FmtD(pos[2]) \o <<")">>
  ELSE <<"w", "o", "r", "l", "d", ".", "g", "e", "t", "B", "l", "o", "c", "k",
         "W", "i", "t", "h", "D", "a", "t", "a", "(">>
         \o FmtD(pos[1]) \o <<",">> \o FmtD(pos[2]) \o <<",">> \o FmtD(pos[3])
         \o <<")">>

DigitVal(c) == CHOOSE d \in 0..9 : Digits[d + 1] = c

RECURSIVE NatOf(_)
NatOf(t) == IF Len(t) = 0 THEN 0
            ELSE 10 * NatOf(Take(t, Len(t) - 1)) + DigitVal(t[Len(t)])

IsDigits(t) == Len(t) > 0 /\ \A i \in 1..Len(t) : t[i] \in Range(Digits)

\* parse_fn = int raises ValueError on text that is no decimal integer
ParseRaises(t) ==
  ~(IsDigits(t) \/ (Len(t) > 1 /\ t[1] = "-" /\ IsDigits(Drop(t, 1))))

\* parse_fn = int, on text it accepts
ParseFn(t) == IF t[1] = "-" THEN 0 - NatOf(Drop(t, 1)) ELSE NatOf(t)

\* str.split(sep): the segments between separators
SplitAt(text, sep) ==
  LET at == {i \in 1..Len(text) : text[i] = sep}
      nth(j) == CHOOSE i \in at : Cardinality({p \in at : p < i}) = j - 1
      first(j) == IF j = 1 THEN 1 ELSE nth(j - 1) + 1
      last(j) == IF j = Cardinality(at) + 1 THEN Len(text) ELSE nth(j) - 1
  IN  [j \in 1..(Cardinality(at) + 1) |-> SubSeq(text, first(j), last(j))]

\* parse_fn = lambda ans: tuple(map(int, ans.split(","))) raises ValueError
\* when a field is no decimal integer
ParseTupleRaises(t) ==
  \E j \in 1..Len(SplitAt(t, ",")) : ParseRaises(SplitAt(t, ",")[j])

\* parse_fn = lambda ans: tuple(map(int, ans.split(","))), on text it accepts
ParseTuple(t) ==
  [j \in 1..Len(SplitAt(t, ",")) |-> ParseFn(SplitAt(t, ",")[j])]

\* bytes.split(b"\n"): the segments between terminators, the last one the
\* (possibly empty) unterminated tail
Split(bytes) ==
  LET at == {i \in 1..Len(bytes) : bytes[i] = NL}
      nth(j) == CHOOSE i \in at : Cardinality({p \in at : p < i}) = j - 1
      first(j) == IF j = 1 THEN 1 ELSE nth(j - 1) + 1
      last(j) == IF j = Cardinality(at) + 1 THEN Len(bytes) ELSE nth(j) - 1
  IN  [j \in 1..(Cardinality(at) + 1) |-> SubSeq(bytes, first(j), last(j))]

\* ------------------------------------------------------------- environment
\* the coordinates requests are made of, and the stub world's height there
Positions == {<<0, 0>>, <<1, -2>>}

Height(pos) == IF pos = <<0, 0>> THEN 7 ELSE 42

\* the voxels the ranges of the wrappers are made of, and the stub world's
\* block id and block data there
Vectors == {<<0, 0, 0>>, <<1, 0, -2>>}

BlockAt(v) == IF v = <<0, 0, 0>> THEN <<1, 0>> ELSE <<35, 14>>

\* the command line of every position the stub world knows
CommandOf == [pos \in Positions \cup Vectors |-> Encode(Format(pos))]

\* the reply line (without terminator) of a correct server to a command line
ReplyTo(line) ==
  IF \E pos \in Positions : CommandOf[pos] = line
  THEN LET pos == CHOOSE p \in Positions : CommandOf[p] = line
       IN  Encode(FmtD(Height(pos)))
  ELSE IF \E v \in Vectors : CommandOf[v] = line
  THEN LET v == CHOOSE u \in Vectors : CommandOf[u] = line
       IN  Encode(FmtD(BlockAt(v)[1]) \o <<",">> \o FmtD(BlockAt(v)[2]))
  ELSE Encode(<<"F", "a", "i", "l">>)

\* the request sequences of the model: <<0,0>>, <<1,-2>>, <<0,0>>, ... cut
\* at every length, so that a sequence of three holds one request twice
RequestAt(i) == IF i % 2 = 1 THEN <<0, 0>> ELSE <<1, -2>>

Requests(n) == [i \in 1..n |-> RequestAt(i)]

\* the ranges of the model: <<0,0,0>>, <<1,0,-2>>, <<0,0,0>>, ... cut at
\* every length
VectorAt(i) == IF i % 2 = 1 THEN <<0, 0, 0>> ELSE <<1, 0, -2>>

VRange(n) == [i \in 1..n |-> VectorAt(i)]

W == 1..MaxThreads          \* worker indices; worker w owns connection w

\* "ok": the far end accepts connections, answers every command and keeps
\* its connections open.  "faulty": it may also refuse a connection, shut a
\* connection down, accept zero bytes of a send, or answer "Fail".
\* (A third one, "trickle", is the far end of InitFill below.)
Environments == {"ok", "faulty"}

\* the size of a run: workers times the commands that cross the wire (a list
\* is run through by every worker, a generator is shared), counted twice
\* when the far end may misbehave
Load(tc, n, k, e) ==
  LET workers == IF tc = 0 THEN 1 ELSE tc
      commands == IF k = "list" THEN workers * n ELSE n
  IN  workers * commands * (IF e = "faulty" THEN 2 ELSE 1)

\* ------------------------------------------------------------------- state
VARIABLES
  thread_count,           \* argument of query_blocks
  requests,               \* argument of query_blocks: the request sequence
  kind,                   \* "list": iter() makes a fresh iterator;
                          \* "generator": iter() returns the object itself
  env,                    \* what the far end may do in this run
  opc,                    \* position of the body of query_blocks
  oi,                     \* index of the orchestrator's current for loop
  sockets,                \* line 160: the list of extra sockets
  sock,                   \* per socket: connected / shut down / closed
  exc,                    \* the exception in flight inside query_blocks
  raised,                 \* the exception query_blocks raised to its caller
  wpc,                    \* position of each worker_fn call
  wfail,                  \* the exception a worker_fn call ended with
  request_iter,           \* worker_fn argument: which iterator it draws from
  more_requests, request_buffer, response_buffer, pending_request_queue,
  allow_read, allow_write, responses,       \* locals of worker_fn
  iter_pos,               \* per iterator: items already handed out
  request_lock,           \* 0 when free, else the worker holding it
  answer_queue,           \* queue.Queue of (request, answer)
  yielded,                \* the pairs the caller has received so far
  c2s, s2c,               \* per connection: bytes in flight to / from server
  peer_closed,            \* per connection: the server has shut it down
  drawn,                  \* history: requests each worker formatted, in order
  replies,                \* history: reply lines the server wrote, in order
  pushed,                 \* history: pairs each worker put, in order
  got_eof,                \* history: a recv of the worker returned b""
  wrote_zero,             \* history: a send of the worker returned 0
  call,                   \* the entry point the caller used
  vrange,                 \* argument of the wrappers: the coordinate range
  result                  \* what the wrapper returned to its caller

orchVars == <<thread_count, requests, kind, env, opc, oi, sockets, sock, exc,
              raised, yielded>>
workVars == <<wpc, wfail, request_iter, more_requests, request_buffer,
              response_buffer, pending_request_queue, allow_read, allow_write,
              responses, iter_pos, request_lock, answer_queue>>
netVars == <<c2s, s2c, peer_closed>>
histVars == <<drawn, replies, pushed, got_eof, wrote_zero>>
callVars == <<call, vrange, result>>
vars == <<orchVars, workVars, netVars, histVars, callVars>>

\* socket 0 is connection._socket, sockets 1..thread_count are the extra ones
NoSocket == [st |-> "none", shut |-> FALSE, closed |-> FALSE]

\* the wrapper has not returned (yet)
NotReturned == [returned |-> FALSE, list |-> <<>>]

\* the state at the moment the body of query_blocks begins, whatever the
\* arguments are
Fresh ==
  /\ opc = "start"
  /\ oi = 0
  /\ sockets = <<>>
  /\ sock = [s \in 0..MaxThreads |->
               IF s = 0 THEN [NoSocket EXCEPT !.st = "connected"] ELSE NoSocket]
  /\ exc = "none"
  /\ raised = "none"
  /\ wpc = [w \in W |-> "idle"]
  /\ wfail = [w \in W |-> "none"]
  /\ request_iter = [w \in W |-> 0]
  /\ more_requests = [w \in W |-> TRUE]
  /\ request_buffer = [w \in W |-> <<>>]
  /\ response_buffer = [w \in W |-> <<>>]
  /\ pending_request_queue = [w \in W |-> <<>>]
  /\ allow_read = [w \in W |-> FALSE]
  /\ allow_write = [w \in W |-> FALSE]
  /\ responses = [w \in W |-> <<>>]
  /\ iter_pos = [i \in W |-> 0]
  /\ request_lock = 0
  /\ answer_queue = <<>>
  /\ yielded = <<>>
  /\ c2s = [w \in W |-> <<>>]
  /\ s2c = [w \in W |-> <<>>]
  /\ peer_closed = [w \in W |-> FALSE]
  /\ drawn = [w \in W |-> <<>>]
  /\ replies = [w \in W |-> <<>>]
  /\ pushed = [w \in W |-> <<>>]
  /\ got_eof = [w \in W |-> FALSE]
  /\ wrote_zero = [w \in W |-> FALSE]
  /\ result = NotReturned

\* a direct call of query_blocks
Init ==
  /\ thread_count \in 0..MaxThreads
  /\ requests \in {Requests(n) : n \in 0..MaxReqs}
  /\ kind \in {"list", "generator"}
  /\ env \in Environments
  /\ Load(thread_count, Len(requests), kind, env) <= MaxLoad
  /\ call = "query_blocks"
  /\ vrange = <<>>
  /\ Fresh

\* ------------------------------------------------------------------ worker
\* iter(requests): a list gives every caller an iterator of its own, a
\* generator is its own iterator
Iter(w) == IF kind = "generator" THEN 1 ELSE w

PopRight(q) == [item |-> q[Len(q)], rest |-> Take(q, Len(q) - 1)]

\* collections.deque.popleft(): the element removed and the deque left
PopLeft(q) == [item |-> Head(q), rest |-> Tail(q)]

PutFirst(q, x) == <<x>> \o q

\* queue.Queue.put
QueuePut(q, x) == Append(q, x)

NeverSendFailed(bytes_written) == FALSE

\* line 132: bytes_written == 0, both integers
SendFailed(bytes_written) == bytes_written = 0

\* line 140: bytes_read == 0 compares a bytes object with an integer, which
\* Python evaluates to False whatever the bytes are
RecvFailed(bytes_read) == FALSE

BusyUntilExhausted(w) == more_requests[w]

GrabbingAlways(w) == more_requests[w]

\* line 106: the condition of the worker's outer while loop
Busy(w) == more_requests[w] \/ Len(pending_request_queue[w]) > 0

\* line 108: the condition of the inner while loop
Grabbing(w) == more_requests[w] /\ Len(request_buffer[w]) < FillThreshold

\* the worker's exception ends the worker_fn call
Raise(w, e) ==
  /\ wpc' = [wpc EXCEPT ![w] = "failed"]
  /\ wfail' = [wfail EXCEPT ![w] = e]

\* line 109: with request_lock (entry)
Acquire(w) ==
  /\ wpc[w] = "grab"
  /\ Grabbing(w)
  /\ request_lock = 0
  /\ request_lock' = w
  /\ wpc' = [wpc EXCEPT ![w] = "locked"]
  /\ UNCHANGED <<callVars, orchVars, netVars, histVars, wfail, request_iter, more_requests,
                 request_buffer, response_buffer, pending_request_queue,
                 allow_read, allow_write, responses, iter_pos, answer_queue>>

HeldAfterExhaustion(w, exhausted) == IF exhausted THEN w ELSE 0

\* lines 109-117: the with block is left, at its end or by the continue of
\* line 114: the lock is free again
Release(w, exhausted) == 0

\* lines 110-117: next(request_iter), format, enqueue; the lock is released
Draw(w) ==
  /\ wpc[w] = "locked"
  /\ LET it == request_iter[w] IN
     IF iter_pos[it] < Len(requests)
     THEN LET pos == requests[iter_pos[it] + 1]
              new_request == Encode(Format(pos))
          IN  /\ iter_pos' = [iter_pos EXCEPT ![it] = @ + 1]
              /\ request_buffer' =
                   [request_buffer EXCEPT ![w] = @ \o new_request \o <<NL>>]
              /\ pending_request_queue' =
                   [pending_request_queue EXCEPT ![w] = Append(@, pos)]
              /\ drawn' = [drawn EXCEPT ![w] = Append(@, pos)]
              /\ UNCHANGED more_requests
     ELSE /\ more_requests' = [more_requests EXCEPT ![w] = FALSE]
          /\ UNCHANGED <<iter_pos, request_buffer, pending_request_queue, drawn>>
  /\ request_lock' = Release(w, iter_pos[request_iter[w]] >= Len(requests))
  /\ wpc' = [wpc EXCEPT ![w] = "grab"]
  /\ UNCHANGED <<callVars, orchVars, netVars, replies, pushed, got_eof, wrote_zero,
                 wfail,
                 request_iter, response_buffer, allow_read, allow_write, responses,
                 answer_queue>>

\* lines 106, 118-119: nothing to send and nothing pending: the loop ends
Finish(w) ==
  /\ wpc[w] = "grab"
  /\ ~Grabbing(w)
  /\ ~Busy(w)
  /\ wpc' = [wpc EXCEPT ![w] = "done"]
  /\ UNCHANGED <<callVars, orchVars, netVars, histVars, wfail, request_iter, more_requests,
                 request_buffer, response_buffer, pending_request_queue,
                 allow_read, allow_write, responses, iter_pos, request_lock,
                 answer_queue>>

NeverReadable(w) == FALSE

\* the socket has data to read, or its end of stream
Readable(w) == Len(s2c[w]) > 0 \/ peer_closed[w]

\* lines 122-125: select.select([mc_socket], w, [], 1); writable tells whether
\* the transport has room for more bytes at this moment
Select(w, writable) ==
  /\ wpc[w] = "grab"
  /\ ~Grabbing(w)
  /\ Busy(w)
  /\ LET aw == Len(request_buffer[w]) > 0 /\ writable
         ar == Readable(w)
     IN  /\ allow_write' = [allow_write EXCEPT ![w] = aw]
         /\ allow_read' = [allow_read EXCEPT ![w] = ar]
         /\ wpc' = [wpc EXCEPT ![w] =
                      IF aw THEN "write" ELSE IF ar THEN "read" ELSE "parse"]
  /\ UNCHANGED <<callVars, orchVars, netVars, histVars, wfail, request_iter, more_requests,
                 request_buffer, response_buffer, pending_request_queue,
                 responses, iter_pos, request_lock, answer_queue>>

AdvanceWhole(buffer, bytes_written) == <<>>

\* line 131: request_buffer = request_buffer[bytes_written:]
Advance(buffer, bytes_written) == Drop(buffer, bytes_written)

\* what mc_socket.send(request_buffer) may return; a "trickle" transport
\* takes one byte at a time
SendResults(w) ==
  IF env = "trickle" THEN {1}
  ELSE (1..Len(request_buffer[w])) \cup (IF env = "faulty" THEN {0} ELSE {})

\* lines 128-133: exactly one send
Send(w) ==
  /\ wpc[w] = "write"
  /\ \/ \E bytes_written \in SendResults(w) :
          /\ c2s' = [c2s EXCEPT ![w] = @ \o Take(request_buffer[w], bytes_written)]
          /\ request_buffer' =
               [request_buffer EXCEPT ![w] = Advance(@, bytes_written)]
          /\ wrote_zero' = [wrote_zero EXCEPT ![w] = @ \/ bytes_written = 0]
          /\ IF SendFailed(bytes_written)
             THEN Raise(w, "RuntimeError")
             ELSE /\ wpc' = [wpc EXCEPT ![w] =
                               IF allow_read[w] THEN "read" ELSE "parse"]
                  /\ UNCHANGED wfail
     \/ /\ peer_closed[w]          \* send on a connection the peer has reset
        /\ Raise(w, "socket.error")
        /\ UNCHANGED <<c2s, request_buffer, wrote_zero>>
  /\ UNCHANGED <<callVars, orchVars, s2c, peer_closed, drawn, replies, pushed,
                 got_eof, request_iter,
                 more_requests, response_buffer, pending_request_queue,
                 allow_read, allow_write, responses, iter_pos, request_lock,
                 answer_queue>>

\* what mc_socket.recv(1024) may return: some bytes, or b"" at end of stream
RecvResults(w) ==
  IF Len(s2c[w]) > 0 THEN 1..Min(Len(s2c[w]), RecvSize) ELSE {0}

\* lines 136-141: exactly one recv
Recv(w) ==
  /\ wpc[w] = "read"
  /\ \E n \in RecvResults(w) :
       LET bytes_read == Take(s2c[w], n) IN
       /\ s2c' = [s2c EXCEPT ![w] = Drop(@, n)]
       /\ response_buffer' = [response_buffer EXCEPT ![w] = @ \o bytes_read]
       /\ got_eof' = [got_eof EXCEPT ![w] = @ \/ n = 0]
       /\ IF RecvFailed(bytes_read)
          THEN Raise(w, "RuntimeError")
          ELSE /\ wpc' = [wpc EXCEPT ![w] = "parse"]
               /\ UNCHANGED wfail
  /\ UNCHANGED <<callVars, orchVars, c2s, peer_closed, drawn, replies, pushed,
                 wrote_zero, request_iter,
                 more_requests, request_buffer, pending_request_queue,
                 allow_read, allow_write, responses, iter_pos, request_lock,
                 answer_queue>>

DropTail(parts) == <<>>

\* line 145: response_buffer = responses[-1]
KeepTail(parts) == parts[Len(parts)]

KeepAll(parts) == parts

\* line 146: responses = responses[:-1]
Complete(parts) == Take(parts, Len(parts) - 1)

\* lines 144-146: split off the complete lines, keep the tail
Parse(w) ==
  /\ wpc[w] = "parse"
  /\ LET parts == Split(response_buffer[w]) IN
     /\ response_buffer' = [response_buffer EXCEPT ![w] = KeepTail(parts)]
     /\ responses' = [responses EXCEPT ![w] = Complete(parts)]
     /\ wpc' = [wpc EXCEPT ![w] = IF Len(parts) > 1 THEN "put" ELSE "grab"]
  /\ UNCHANGED <<callVars, orchVars, netVars, histVars, wfail, request_iter, more_requests,
                 request_buffer, pending_request_queue, allow_read, allow_write,
                 iter_pos, request_lock, answer_queue>>

\* parse_fn(text) raises: the wrapper for blocks passes the tuple parser
\* (line 206), every other call of the model passes int
AnswerRaises(text) ==
  IF call = "getblock" THEN ParseTupleRaises(text) ELSE ParseRaises(text)

\* parse_fn(text)
Answer(text) == IF call = "getblock" THEN ParseTuple(text) ELSE ParseFn(text)

\* lines 147-149: one turn of the for loop over the complete lines
Put(w) ==
  /\ wpc[w] = "put"
  /\ LET response_string == Head(responses[w]) IN
     IF Len(pending_request_queue[w]) = 0
     THEN /\ Raise(w, "IndexError")
          /\ UNCHANGED <<pending_request_queue, answer_queue, responses, pushed>>
     ELSE LET popped == PopLeft(pending_request_queue[w])
              text == Decode(response_string)
          IN  /\ pending_request_queue' =
                   [pending_request_queue EXCEPT ![w] = popped.rest]
              /\ IF AnswerRaises(text)
                 THEN /\ Raise(w, "ValueError")
                      /\ UNCHANGED <<answer_queue, responses, pushed>>
                 ELSE /\ answer_queue' =
                           QueuePut(answer_queue, <<popped.item, Answer(text)>>)
                      /\ pushed' = [pushed EXCEPT ![w] =
                                      Append(@, <<popped.item, Answer(text)>>)]
                      /\ responses' = [responses EXCEPT ![w] = Tail(@)]
                      /\ wpc' = [wpc EXCEPT ![w] =
                                   IF Len(responses[w]) > 1 THEN "put" ELSE "grab"]
                      /\ UNCHANGED wfail
  /\ UNCHANGED <<callVars, orchVars, netVars, drawn, replies, got_eof, wrote_zero,
                 request_iter,
                 more_requests, request_buffer, response_buffer, allow_read,
                 allow_write, iter_pos, request_lock>>

\* ------------------------------------------------------------------ server
\* the first complete command line waiting on connection w
FirstLine(w) == Split(c2s[w])[1]

\* the in-order server answers the oldest complete command of a connection
ServerReply(w) ==
  /\ wpc[w] # "idle"
  /\ ~peer_closed[w]
  /\ \E i \in 1..Len(c2s[w]) : c2s[w][i] = NL
  /\ \E reply \in {ReplyTo(FirstLine(w))}
                    \cup (IF env = "faulty" THEN {ReplyTo(<<>>)} ELSE {}) :
       /\ s2c' = [s2c EXCEPT ![w] = @ \o reply \o <<NL>>]
       /\ replies' = [replies EXCEPT ![w] = Append(@, reply)]
  /\ c2s' = [c2s EXCEPT ![w] = Drop(@, Len(FirstLine(w)) + 1)]
  /\ UNCHANGED <<callVars, orchVars, workVars, peer_closed, drawn, pushed, got_eof,
                 wrote_zero>>

\* the server shuts the connection down while the worker is still at work
ServerClose(w) ==
  /\ env = "faulty"
  /\ wpc[w] \notin {"idle", "done", "failed"}
  /\ ~peer_closed[w]
  /\ peer_closed' = [peer_closed EXCEPT ![w] = TRUE]
  /\ UNCHANGED <<callVars, orchVars, workVars, c2s, s2c, histVars>>

\* ------------------------------------------------------------ orchestrator
NeverInline(tc) == FALSE

\* line 154: if thread_count == 0
Inline(tc) == tc = 0

\* lines 151-158: thread_count == 0 runs worker_fn in the calling thread on
\* connection._socket; otherwise the else branch begins
Start ==
  /\ opc = "start"
  /\ IF Inline(thread_count)
     THEN /\ opc' = "inline"
          /\ request_iter' = [request_iter EXCEPT ![1] = Iter(1)]
          /\ wpc' = [wpc EXCEPT ![1] = "grab"]
     ELSE /\ opc' = "connect"
          /\ UNCHANGED <<request_iter, wpc>>
  /\ UNCHANGED <<callVars, thread_count, requests, kind, env, oi, sockets, sock, exc,
                 raised, yielded, netVars, histVars, wfail, more_requests,
                 request_buffer, response_buffer, pending_request_queue,
                 allow_read, allow_write, responses, iter_pos, request_lock,
                 answer_queue>>

\* line 155 returned: the inline worker is through
InlineReturn ==
  /\ opc = "inline"
  /\ wpc[1] = "done"
  /\ opc' = "drain"
  /\ UNCHANGED <<callVars, thread_count, requests, kind, env, oi, sockets, sock, exc,
                 raised, yielded, workVars, netVars, histVars>>

\* line 155 raised: nothing in query_blocks catches it on this branch
InlineRaise ==
  /\ opc = "inline"
  /\ wpc[1] = "failed"
  /\ opc' = "raised"
  /\ raised' = wfail[1]
  /\ UNCHANGED <<callVars, thread_count, requests, kind, env, oi, sockets, sock, exc,
                 yielded, workVars, netVars, histVars>>

AfterFirst(s) == TRUE

\* line 163: the turn for socket s is the last one of range(thread_count)
LastTurn(s) == s = thread_count

\* lines 163-165: one turn of the connecting loop; the socket is appended to
\* the list before connect() is tried
Connect(ok) ==
  /\ opc = "connect"
  /\ ok \/ env = "faulty"
  /\ LET s == oi + 1 IN
     /\ sockets' = Append(sockets, s)
     /\ sock' = [sock EXCEPT ![s].st = IF ok THEN "connected" ELSE "created"]
     /\ IF ok
        THEN /\ oi' = IF LastTurn(s) THEN 0 ELSE s
             /\ opc' = IF LastTurn(s) THEN "spawn" ELSE "connect"
             /\ UNCHANGED exc
        ELSE /\ oi' = 0               \* lines 178-182: except, raise, finally
             /\ opc' = "cleanup"
             /\ exc' = "socket.error"
  /\ UNCHANGED <<callVars, thread_count, requests, kind, env, raised, yielded, workVars,
                 netVars, histVars>>

\* lines 168-175: one turn of the loop that starts the threads
Spawn ==
  /\ opc = "spawn"
  /\ LET w == oi + 1 IN
     /\ request_iter' = [request_iter EXCEPT ![w] = Iter(w)]
     /\ wpc' = [wpc EXCEPT ![w] = "grab"]
     /\ oi' = IF w = thread_count THEN 0 ELSE w
     /\ opc' = IF w = thread_count THEN "join" ELSE "spawn"
  /\ UNCHANGED <<callVars, thread_count, requests, kind, env, sockets, sock, exc, raised,
                 yielded, netVars, histVars, wfail, more_requests,
                 request_buffer, response_buffer, pending_request_queue,
                 allow_read, allow_write, responses, iter_pos, request_lock,
                 answer_queue>>

NotWaiting(w) == TRUE

\* line 177: w.join() returns once the thread has ended, however it ended
Joined(w) == wpc[w] \in {"done", "failed"}

\* lines 176-177: one turn of the loop that joins the threads
Join ==
  /\ opc = "join"
  /\ LET w == oi + 1 IN
     /\ Joined(w)
     /\ oi' = IF w = thread_count THEN 0 ELSE w
     /\ opc' = IF w = thread_count THEN "cleanup" ELSE "join"
  /\ UNCHANGED <<callVars, thread_count, requests, kind, env, sockets, sock, exc, raised,
                 yielded, workVars, netVars, histVars>>

\* shutdown(SHUT_RDWR) raises socket.error on a socket that is not connected:
\* one whose connect failed, or (possibly) one whose peer has gone
ShutdownMayRaise(s) == sock[s].st # "connected" \/ peer_closed[s]

ShutdownMaySucceed(s) == sock[s].st = "connected"

\* lines 183-188: one turn of the finally loop; when shutdown raises, the
\* except clause is entered and close() is not reached
Cleanup(shutdown_ok) ==
  /\ opc = "cleanup"
  /\ LET s == sockets[oi + 1] IN
     /\ IF shutdown_ok THEN ShutdownMaySucceed(s) ELSE ShutdownMayRaise(s)
     /\ sock' = IF shutdown_ok
                THEN [sock EXCEPT ![s].shut = TRUE, ![s].closed = TRUE]
                ELSE sock
     /\ IF oi + 1 = Len(sockets)
        THEN /\ oi' = 0
             /\ opc' = IF exc = "none" THEN "drain" ELSE "raised"
             /\ raised' = exc
        ELSE /\ oi' = oi + 1
             /\ UNCHANGED <<opc, raised>>
  /\ UNCHANGED <<callVars, thread_count, requests, kind, env, sockets, exc, yielded,
                 workVars, netVars, histVars>>

\* lines 189-190: one pair handed to the caller
Yield ==
  /\ opc = "drain"
  /\ Len(answer_queue) > 0
  /\ yielded' = Append(yielded, Head(answer_queue))
  /\ answer_queue' = Tail(answer_queue)
  /\ UNCHANGED <<callVars, thread_count, requests, kind, env, opc, oi, sockets, sock, exc,
                 raised, netVars, histVars, wpc, wfail, request_iter,
                 more_requests, request_buffer, response_buffer,
                 pending_request_queue, allow_read, allow_write, responses,
                 iter_pos, request_lock>>

\* line 189: the queue is empty, the generator is exhausted
Return ==
  /\ opc = "drain"
  /\ Len(answer_queue) = 0
  /\ opc' = "returned"
  /\ UNCHANGED <<callVars, thread_count, requests, kind, env, oi, sockets, sock, exc,
                 raised, yielded, workVars, netVars, histVars>>

\* ---------------------------------------------------------------- wrappers
\* lines 202-206: the dict comprehension; a later pair with the same key
\* replaces the earlier one
DictOf(pairs) ==
  [k \in {pairs[i][1] : i \in 1..Len(pairs)} |->
     pairs[CHOOSE i \in 1..Len(pairs) :
             pairs[i][1] = k /\ \A j \in (i + 1)..Len(pairs) : pairs[j][1] # k][2]]

\* picraft.Block(id, data)
Block(id, data) == [id |-> id, data |-> data]

\* picraft.Vector(x, y, z)
Vector(x, y, z) == <<x, y, z>>

BlockListOfKeys(ans, range) ==
  LET firsts == {i \in 1..Len(range) : \A j \in 1..(i - 1) : range[j] # range[i]}
      nth(k) == CHOOSE i \in firsts : Cardinality({p \in firsts : p < i}) = k - 1
  IN  [k \in 1..Cardinality(firsts) |->
         Block(ans[range[nth(k)]][1], ans[range[nth(k)]][2])]

\* line 207: [picraft.Block(*ans[v]) for v in vrange]
BlockList(ans, range) ==
  [i \in 1..Len(range) |-> Block(ans[range[i]][1], ans[range[i]][2])]

\* line 222: ((v[0], v[2]) for v in vrange)
Columns(range) == [i \in 1..Len(range) |-> <<range[i][1], range[i][3]>>]

\* lines 220-225: [Vector(pos[0], data, pos[1]) for (pos, data) in ...]
HeightList(pairs) ==
  [i \in 1..Len(pairs) |-> Vector(pairs[i][1][1], pairs[i][2], pairs[i][1][2])]

\* lines 202-207: query_blocks is exhausted, the dict is complete, the range
\* is iterated a second time; a voxel without an answer is a KeyError
GetBlockReturn ==
  /\ call = "getblock"
  /\ opc = "returned"
  /\ ~result.returned
  /\ raised = "none"
  /\ LET ans == DictOf(yielded) IN
     IF \A i \in 1..Len(vrange) : vrange[i] \in DOMAIN ans
     THEN /\ result' = [returned |-> TRUE, list |-> BlockList(ans, vrange)]
          /\ UNCHANGED raised
     ELSE /\ raised' = "KeyError"
          /\ UNCHANGED result
  /\ UNCHANGED <<thread_count, requests, kind, env, opc, oi, sockets, sock, exc,
                 yielded, workVars, netVars, histVars, call, vrange>>

\* lines 220-225: query_blocks is exhausted, the list is complete
GetHeightReturn ==
  /\ call = "getheight"
  /\ opc = "returned"
  /\ ~result.returned
  /\ result' = [returned |-> TRUE, list |-> HeightList(yielded)]
  /\ UNCHANGED <<orchVars, workVars, netVars, histVars, call, vrange>>

\* ----------------------------------------------------------- specification
WorkerStep(w) ==
  \/ Acquire(w)
  \/ Draw(w)
  \/ Finish(w)
  \/ \E writable \in BOOLEAN : Select(w, writable)
  \/ Send(w)
  \/ Recv(w)
  \/ Parse(w)
  \/ Put(w)

Orchestrate ==
  \/ Start
  \/ InlineReturn
  \/ InlineRaise
  \/ \E ok \in BOOLEAN : Connect(ok)
  \/ Spawn
  \/ Join
  \/ \E shutdown_ok \in BOOLEAN : Cleanup(shutdown_ok)
  \/ Yield
  \/ Return

Next ==
  \/ Orchestrate
  \/ \E w \in W : WorkerStep(w)
  \/ \E w \in W : ServerReply(w)
  \/ \E w \in W : ServerClose(w)

Spec == Init /\ [][Next]_vars

\* The runs against a server that accepts written bytes and replies to every
\* command: no fault of the far end, every thread keeps being scheduled, the
\* server keeps answering, and a worker that keeps asking select() for
\* writability is told "writable" again and again.  (The longest request
\* sequences are left to Spec.)
InitLive == Init /\ env = "ok" /\ Len(requests) < MaxReqs

NextLive ==
  \/ Start
  \/ InlineReturn
  \/ Connect(TRUE)
  \/ Spawn
  \/ Join
  \/ Cleanup(TRUE)
  \/ Yield
  \/ Return
  \/ \E w \in W : WorkerStep(w)
  \/ \E w \in W : ServerReply(w)

\* (every step of the orchestrator changes opc, oi or yielded, every step of a
\* worker its wpc or responses, every reply s2c: the subscripts name those)
Fairness ==
  /\ WF_<<opc, oi, yielded>>(Start \/ InlineReturn \/ Connect(TRUE) \/ Spawn
                               \/ Join \/ Cleanup(TRUE) \/ Yield \/ Return)
  /\ \A w \in W : /\ WF_<<wpc, responses>>(WorkerStep(w))
                   /\ SF_wpc(Select(w, TRUE))
                   /\ WF_s2c(ServerReply(w))

SpecLive == InitLive /\ [][NextLive]_vars /\ Fairness

\* The calls of the two wrappers: both run the batch inline (the first by
\* the default of thread_count, the second by passing 0); the first hands
\* the range itself to query_blocks, the second a generator over it
InitWrap ==
  /\ call \in {"getblock", "getheight"}
  /\ vrange \in {VRange(n) : n \in 0..MaxReqs}
  /\ thread_count = 0
  /\ requests = IF call = "getblock" THEN vrange ELSE Columns(vrange)
  /\ kind = IF call = "getblock" THEN "list" ELSE "generator"
  /\ env \in Environments
  /\ Load(thread_count, Len(requests), kind, env) <= MaxLoad
  /\ Fresh

NextWrap ==
  \/ Start
  \/ InlineReturn
  \/ InlineRaise
  \/ Yield
  \/ Return
  \/ \E w \in W : WorkerStep(w)
  \/ \E w \in W : ServerReply(w)
  \/ \E w \in W : ServerClose(w)
  \/ GetBlockReturn
  \/ GetHeightReturn

SpecWrap == InitWrap /\ [][NextWrap]_vars

\* The runs that fill request_buffer: an inline batch of MaxFillReqs requests
\* against a far end that takes the bytes one at a time, when it takes any,
\* and has not answered yet
InitFill ==
  /\ thread_count = 0
  /\ requests = Requests(MaxFillReqs)
  /\ kind = "list"
  /\ env = "trickle"
  /\ call = "query_blocks"
  /\ vrange = <<>>
  /\ Fresh

NextFill ==
  \/ Start
  \/ \E w \in W : Acquire(w)
  \/ \E w \in W : Draw(w)
  \/ \E w \in W : \E writable \in BOOLEAN : Select(w, writable)
  \/ \E w \in W : Send(w)
  \/ \E w \in W : Parse(w)

SpecFill == InitFill /\ [][NextFill]_vars

\* ================================================================== claims
\* what an in-order server with the stub world answers to the requests
Expected(reqs) == [i \in 1..Len(reqs) |-> <<reqs[i], Height(reqs[i])>>]

Count(seq, x) == Cardinality({i \in 1..Len(seq) : seq[i] = x})

SameBag(a, b) ==
  /\ Len(a) = Len(b)
  /\ \A x \in Range(a) \cup Range(b) : Count(a, x) = Count(b, x)

IsPrefix(a, b) == Len(a) <= Len(b) /\ a = Take(b, Len(a))

\* the lines, each followed by its terminator, as one byte string
RECURSIVE JoinLines(_)
JoinLines(lines) ==
  IF Len(lines) = 0 THEN <<>>
  ELSE Head(lines) \o <<NL>> \o JoinLines(Tail(lines))

SomeWorkerFailed == \E w \in W : wpc[w] = "failed"

\* C1: with thread_count == 0, when query_blocks has returned, the pairs the
\* caller received are the requests of R, each once, in the order of R, each
\* with the server's answer
C1_InlineOrder ==
  (thread_count = 0 /\ opc = "returned") => yielded = Expected(requests)

C1_Witness ==
  /\ thread_count = 0
  /\ opc = "returned"
  /\ Len(requests) = MaxReqs
  /\ yielded = Expected(requests)

\* C2 (as claimed): with thread_count >= 1, when query_blocks has returned and
\* no worker failed, the pairs received are, as a bag, one pair per request
C2_ExactlyOnce ==
  (thread_count >= 1 /\ opc = "returned" /\ ~SomeWorkerFailed)
    => SameBag(yielded, Expected(requests))

\* C3: the k-th pair a worker put holds the k-th request it sent and the
\* parsed k-th reply line of its connection, and that line is the server's
\* reply to the command of that request
C3_Matching ==
  \A w \in W : \A k \in 1..Len(pushed[w]) :
    /\ k <= Len(drawn[w]) /\ k <= Len(replies[w])
    /\ pushed[w][k][1] = drawn[w][k]
    /\ pushed[w][k][2] = ParseFn(Decode(replies[w][k]))
    /\ replies[w][k] = ReplyTo(Encode(Format(drawn[w][k])))

C3_Witness ==
  \E w \in W : Len(pushed[w]) >= 2 /\ Len(pending_request_queue[w]) >= 1

\* C4 (as claimed): a worker whose recv returned zero bytes has failed
C4_EofFails == \A w \in W : got_eof[w] => wpc[w] = "failed"

\* C5 (as claimed): once a worker has failed, query_blocks does not go on to
\* hand out results or return normally
C5_FailureSurfaces == SomeWorkerFailed => opc \notin {"drain", "returned"}

\* C6 (as claimed): when a worker has failed the caller has received no pair
C6_NoPartialResults == SomeWorkerFailed => yielded = <<>>

\* C7 (as claimed): when the batch has ended, every extra socket that was
\* connected is shut down and closed
C7_AllClosed ==
  (thread_count >= 1 /\ opc \in {"drain", "returned", "raised"})
    => \A s \in 1..MaxThreads :
         sock[s].st = "connected" => (sock[s].shut /\ sock[s].closed)

\* C8: with thread_count == 1 the pairs are produced in the order of R: what
\* was handed out and what waits in the queue is a prefix of the expected
\* sequence, and all of it once query_blocks returned without a failed worker
C8_OneThreadOrder ==
  thread_count = 1 =>
    /\ IsPrefix(yielded \o answer_queue, Expected(requests))
    /\ (opc = "returned" /\ ~SomeWorkerFailed) => yielded = Expected(requests)

C8_Witness ==
  /\ thread_count = 1
  /\ opc = "returned"
  /\ Len(requests) = MaxReqs
  /\ yielded = Expected(requests)

\* C9: however the reply stream is cut into reads, the bytes a worker has
\* received are the lines it made pairs of, then the lines and the partial
\* line it still holds; every pair carries the parse of a whole reply line;
\* and outside the read-and-split steps the receive buffer holds no
\* terminator, so a partial line waits unparsed for the rest of it
C9_Reassembly ==
  \A w \in W :
    /\ Len(pushed[w]) <= Len(replies[w])
    /\ JoinLines(Take(replies[w], Len(pushed[w])))
         \o JoinLines(responses[w]) \o response_buffer[w] \o s2c[w]
       = JoinLines(replies[w])
    /\ \A k \in 1..Len(pushed[w]) :
         pushed[w][k][2] = ParseFn(Decode(replies[w][k]))
    /\ wpc[w] # "parse" => \A i \in 1..Len(response_buffer[w]) :
                             response_buffer[w][i] # NL

\* a worker holds the first byte of the reply 42 and waits for the rest,
\* after it has made a pair of an earlier reply
C9_Witness ==
  \E w \in W :
    /\ wpc[w] = "grab"
    /\ response_buffer[w] = Encode(<<"4">>)
    /\ Len(pushed[w]) = 1

\* C10: against a server that accepts bytes and answers, every worker that
\* was started ends, without an exception, at a moment when it has no more
\* requests to draw and nothing pending, and it is never through otherwise
C10_WorkerTerminates ==
  /\ <>(\A w \in 1..(IF thread_count = 0 THEN 1 ELSE thread_count) :
          /\ wpc[w] = "done"
          /\ ~more_requests[w]
          /\ pending_request_queue[w] = <<>>)
  /\ [](\A w \in W : wpc[w] = "done" =>
          (~more_requests[w] /\ pending_request_queue[w] = <<>>))

\* a worker that had to wait for its replies is through
C10_Witness ==
  \E w \in W :
    /\ wpc[w] = "done"
    /\ Len(pushed[w]) >= 2

\* the workers of the batch: the inline one, or one per thread
Workers == 1..(IF thread_count = 0 THEN 1 ELSE thread_count)

\* C11: whenever the caller has received a pair, every worker of the batch
\* has ended before: the inline worker has returned, or every thread has
\* ended and been joined (the orchestrator is past the joins and the cleanup)
C11_NothingBeforeAllFinished ==
  Len(yielded) > 0 =>
    /\ \A w \in Workers : wpc[w] \in {"done", "failed"}
    /\ thread_count = 0 => wpc[1] = "done"
    /\ opc \in {"drain", "returned"}

\* two threads have both put pairs and the caller has received the first
C11_Witness ==
  /\ thread_count = 2
  /\ Len(yielded) = 1
  /\ \A w \in Workers : Len(pushed[w]) > 0

\* C12: a worker whose send (made after select reported the socket writable
\* for a non-empty request_buffer) returned zero has failed with the
\* RuntimeError of line 133, and a failed worker stays failed and neither
\* writes, reads nor puts a pair any more
C12_ZeroWriteFails ==
  /\ [](\A w \in W : wrote_zero[w] =>
          (wpc[w] = "failed" /\ wfail[w] = "RuntimeError"))
  /\ [][\A w \in W : wpc[w] = "failed" =>
          /\ wpc'[w] = "failed"
          /\ request_buffer'[w] = request_buffer[w]
          /\ Len(c2s'[w]) <= Len(c2s[w])
          /\ response_buffer'[w] = response_buffer[w]
          /\ Len(s2c'[w]) >= Len(s2c[w])
          /\ pushed'[w] = pushed[w]]_vars

\* a worker that had already put a pair got zero from a send, with bytes
\* still to write
C12_Witness ==
  \E w \in W :
    /\ wrote_zero[w]
    /\ wpc[w] = "failed"
    /\ Len(request_buffer[w]) > 0
    /\ Len(pushed[w]) > 0

\* C13: with thread_count == 0 no socket is created and no thread started
\* (the orchestrator never enters the connecting, starting, joining or
\* cleaning loops and only worker 1 ever leaves "idle"); worker 1 runs while
\* the caller is inside the call of line 155; when the batch has ended that
\* one worker has run; and the caller's socket stays connected, neither shut
\* down nor closed
C13_InlineOnCallerSocket ==
  thread_count = 0 =>
    /\ sockets = <<>>
    /\ \A s \in 1..MaxThreads : sock[s] = NoSocket
    /\ opc \in {"start", "inline", "drain", "returned", "raised"}
    /\ \A w \in W \ {1} : wpc[w] = "idle"
    /\ wpc[1] \notin {"idle", "done", "failed"} => opc = "inline"
    /\ opc \in {"drain", "returned", "raised"} => wpc[1] \in {"done", "failed"}
    /\ sock[0] = [st |-> "connected", shut |-> FALSE, closed |-> FALSE]

\* an inline batch has ended with its results handed out
C13_Witness ==
  /\ thread_count = 0
  /\ opc = "returned"
  /\ wpc[1] = "done"
  /\ Len(yielded) >= 2
  /\ sock[0].st = "connected"

\* C14: when a wrapper has returned, its list has one element per element
\* of the range, and element i is the Block made of the server's answer for
\* voxel i of the range, or the Vector made of the column of voxel i and the
\* server's height for it
C14_WrappersKeepRangeOrder ==
  result.returned =>
    /\ Len(result.list) = Len(vrange)
    /\ \A i \in 1..Len(vrange) :
         result.list[i] =
           IF call = "getblock"
           THEN Block(BlockAt(vrange[i])[1], BlockAt(vrange[i])[2])
           ELSE Vector(vrange[i][1], Height(<<vrange[i][1], vrange[i][3]>>),
                       vrange[i][3])

\* the block wrapper has returned for a range that holds one voxel twice
C14_Witness ==
  /\ call = "getblock"
  /\ result.returned
  /\ Len(vrange) >= 3
  /\ \E i, j \in 1..Len(vrange) : i < j /\ vrange[i] = vrange[j]

\* the draws of all workers: worker w's k-th draw is <<w, k>>
Draws == UNION {{<<w, k>> : k \in 1..Len(drawn[w])} : w \in W}

\* C15 (as claimed): with thread_count >= 1 the workers that were started
\* draw from one and the same iterator, and what all of them have drawn
\* together is the beginning of the request sequence, each request of it
\* handed out once to one worker
C15_SharedCursor ==
  thread_count >= 1 =>
    /\ \A v, w \in Workers :
         (wpc[v] # "idle" /\ wpc[w] # "idle") => request_iter[v] = request_iter[w]
    /\ Cardinality(Draws) <= Len(requests)
    /\ \A x \in Range(requests) :
         Cardinality({d \in Draws : drawn[d[1]][d[2]] = x})
           = Count(Take(requests, Cardinality(Draws)), x)

\* C16: at most one worker is inside the with block of line 109; the lock is
\* held exactly by the worker that is between entering the block and having
\* drawn (so by no worker that is in select, send, recv or the parsing, and
\* by none that has seen StopIteration and left the block); and the holder
\* can always take its draw step, which releases the lock, so that no worker
\* waits for the lock for ever
C16_Mutex ==
  /\ Cardinality({w \in W : wpc[w] = "locked"}) <= 1
  /\ \A w \in W : (request_lock = w) <=> (wpc[w] = "locked")
  /\ request_lock \in W \cup {0}
  /\ \A w \in W : request_lock = w => ENABLED Draw(w)

\* one worker is inside the with block while another one waits to enter it
C16_Witness ==
  \E v, w \in W :
    /\ v # w
    /\ request_lock = v
    /\ wpc[w] = "grab"
    /\ Grabbing(w)

\* C17: when creating or connecting one of the extra sockets has failed, no
\* worker was or is ever started and no request drawn; and whenever a
\* worker of a threaded batch has been started, all thread_count sockets
\* are connected sockets
C17_NoWorkerAfterFailedConnect ==
  /\ exc = "socket.error" =>
        /\ \A w \in W : wpc[w] = "idle" /\ drawn[w] = <<>>
        /\ \A i \in W : iter_pos[i] = 0
        /\ opc \in {"cleanup", "raised"}
  /\ (thread_count >= 1 /\ \E w \in W : wpc[w] # "idle") =>
        \A s \in 1..thread_count : sock[s].st = "connected"

\* the second of two connects failed after the first had succeeded, and
\* query_blocks has raised
C17_Witness ==
  /\ thread_count = 2
  /\ sock[1].st = "connected"
  /\ sock[2].st = "created"
  /\ opc = "raised"
  /\ raised = "socket.error"

\* C18: request_buffer of a worker is always shorter than the threshold of
\* line 108, or shorter than the threshold plus one command of the batch
\* with its terminator: a request is drawn only below the threshold
C18_SendBufferBounded ==
  \A w \in W :
    \/ Len(request_buffer[w]) < FillThreshold
    \/ \E pos \in Range(requests) :
         Len(request_buffer[w]) < FillThreshold + Len(Encode(Format(pos))) + 1

\* the buffer is as long as it can get: it held one byte less than the
\* threshold when the longest command was appended
C18_Witness ==
  \E w \in W :
    /\ Len(c2s[w]) > 0
    /\ \A pos \in Range(requests) :
         Len(request_buffer[w]) >= FillThreshold + Len(Encode(Format(pos)))

\* the commands of requests k = from .. Len(reqs), each with its terminator
CommandsFrom(reqs, from) ==
  JoinLines([k \in 1..(Len(reqs) - from + 1) |-> CommandOf[reqs[from + k - 1]]])

\* C19: (state) the bytes on their way to the server followed by the bytes
\* still in request_buffer are the commands of the requests the worker drew,
\* in draw order, from the first command the server has not consumed yet:
\* no byte lost, repeated or reordered; and a worker is about to send only
\* with a non-empty request_buffer.  (steps) select reports readability
\* whenever there is something to read, and writability only for a non-empty
\* request_buffer; a send is followed by at most one recv and then the
\* parsing, a recv by the parsing, so an iteration has at most one of each;
\* and a send moves a beginning of request_buffer onto the wire and leaves
\* the rest
C19_WriteOnceInOrder ==
  /\ [](\A w \in W :
          /\ Len(replies[w]) <= Len(drawn[w])
          /\ c2s[w] \o request_buffer[w]
               = CommandsFrom(drawn[w], Len(replies[w]) + 1)
          /\ wpc[w] = "write" => Len(request_buffer[w]) > 0)
  /\ [][\A w \in W :
          /\ (wpc[w] = "grab" /\ wpc'[w] \in {"write", "read", "parse"}) =>
                /\ allow_read'[w] = Readable(w)
                /\ allow_write'[w] => Len(request_buffer[w]) > 0
                /\ wpc'[w] = IF allow_write'[w] THEN "write"
                              ELSE IF allow_read'[w] THEN "read" ELSE "parse"
          /\ (wpc[w] = "write" /\ wpc'[w] # "write") =>
                /\ wpc'[w] \in {"read", "parse", "failed"}
                /\ wpc'[w] = "read" => allow_read[w]
                /\ c2s'[w] \o request_buffer'[w] = c2s[w] \o request_buffer[w]
                /\ Len(request_buffer'[w]) <= Len(request_buffer[w])
          /\ (wpc[w] = "read" /\ wpc'[w] # "read") =>
                wpc'[w] \in {"parse", "failed"}
          /\ wpc[w] \in {"read", "parse", "put"} =>
                (request_buffer'[w] = request_buffer[w]
                   /\ Len(c2s'[w]) <= Len(c2s[w]))]_vars

\* after the server answered one command, a worker is about to send again
\* while part of a command is on the wire and the rest still in its buffer
C19_Witness ==
  \E w \in W :
    /\ wpc[w] = "write"
    /\ Len(replies[w]) >= 1
    /\ Len(c2s[w]) > 0
    /\ c2s[w][Len(c2s[w])] # NL
    /\ Len(request_buffer[w]) > 0

\* C20: a worker with bytes left in request_buffer has a request pending (the
\* server answers complete commands only, so the request of an unfinished
\* command is still in the queue); hence the test of lines 106 and 118,
\* which looks at more_requests and the queue only, never ends a worker
\* that has bytes left to write, and a worker that ended without an
\* exception has an empty request_buffer and an empty response_buffer
C20_NothingLeftUnwritten ==
  \A w \in W :
    /\ Len(request_buffer[w]) > 0 => Len(pending_request_queue[w]) > 0
    /\ wpc[w] = "done" =>
         (request_buffer[w] = <<>> /\ response_buffer[w] = <<>>)

\* a worker that knows there are no more requests and has made a pair
\* already evaluates the test with bytes still unwritten
C20_Witness ==
  \E w \in W :
    /\ wpc[w] = "grab"
    /\ ~more_requests[w]
    /\ Len(request_buffer[w]) > 0
    /\ Len(pushed[w]) >= 1

====
